---- MODULE Spec2Model ----
(***************************************************************************)
(* Model of backend/app.py (Xshir/NASA25): the advice engine               *)
(* interpret_conditions and the two weather fetchers                        *)
(* get_meteomatics_summary and get_nasa_power.                              *)
(*                                                                          *)
(* Python values are modelled as follows.                                   *)
(*   - an optional number is a set: {} is None, {n} is the number n;        *)
(*   - a dict is a function from a set of string keys to optional numbers;  *)
(*   - the argument `metrics` is [kind |-> "none"] for None and             *)
(*     [kind |-> "dict", d |-> <dict>] otherwise;                           *)
(*   - a str is a sequence of one-character strings, so that lower() and    *)
(*     the substring test `k in e` are computed, not assumed.               *)
(***************************************************************************)
EXTENDS Integers, Sequences, FiniteSets, TLC

VARIABLES
    pc,          \* advice engine: "call" before interpret_conditions ran, "done" after
    metrics,     \* argument metrics of interpret_conditions
    event_name,  \* argument event_name of interpret_conditions
    label,       \* returned label ("" before the call)
    final_tips,  \* returned tip list (<<>> before the call)
    f_pc,        \* fetcher: position in the function body
    f_which,     \* fetcher: "meteomatics" or "nasa"
    f_creds,     \* MM_USER and MM_PASS both set
    f_args,      \* [date, lat, lon], each "ok", "absent" or "malformed"
    f_net,       \* what the upstream does with a request
    f_payload,   \* the upstream parameters a well-formed response body carries
    f_requests,  \* number of requests.get calls issued by the current call
    f_result,    \* "pending", "none" (returned None), "record" or "raised"
    f_record,    \* the dict returned when f_result = "record"
    now,         \* time.time(), in seconds
    ticks,       \* number of times the clock has moved
    issued,      \* the tokens signup and login have handed out
    users,       \* table app_users: the committed rows, by id
    events,      \* table events: the committed rows, by id
    e_last,      \* the last request to a protected route since the clock moved
    u_w,         \* signup and login: each worker's request and how far it got
    u_seq,       \* last value the identity column of app_users gave out
    db_pool,     \* the global db_pool of each process (0 for None)
    pools,       \* every SimpleConnectionPool constructed so far
    lock,        \* advisory lock 420420: the connection holding it, how often
    p_w          \* init_db_pool and its caller: each worker's position and locals

vars == <<pc, metrics, event_name, label, final_tips,
          f_pc, f_which, f_creds, f_args, f_net, f_payload, f_requests,
          f_result, f_record, now, ticks, issued, users, events, e_last,
          u_w, u_seq, db_pool, pools, lock, p_w>>

advice_vars == <<pc, metrics, event_name, label, final_tips>>
fetch_vars == <<f_pc, f_which, f_creds, f_args, f_net, f_payload, f_requests,
                f_result, f_record>>
event_vars == <<now, ticks, issued, events, e_last>>
signup_vars == <<u_w, u_seq>>
pool_vars == <<db_pool, pools, lock, p_w>>

(***************************************************************************)
(* Bounds of the model.                                                     *)
(***************************************************************************)
\* an event name is at most MaxWords words of Vocabulary, joined by spaces
MaxWords == 2
\* the clock moves at most MaxTicks times
MaxTicks == 2
\* signup and login hand out at most MaxTokens tokens
MaxTokens == 1
\* the table events holds at most MaxEvents rows
MaxEvents == 2
\* requests are served by NumWorkers workers at a time
NumWorkers == 2
\* the deadline of init_db_pool passes after MaxAttempts attempts
MaxAttempts == 2

(***************************************************************************)
(* Python values.                                                           *)
(***************************************************************************)
None == {}
Num(n) == {n}
Val(v) == CHOOSE x \in v : TRUE

\* bool(v) of an optional number: None and 0 are falsy
Truthy(v) == v # None /\ v # Num(0)

\* Python `a or b`: a when a is truthy, else b
PyOr(a, b) == IF Truthy(a) THEN a ELSE b

\* dict.get(k): the value, or None when the key is missing
Get(d, k) == IF k \in DOMAIN d THEN d[k] ELSE None

\* `not metrics`: None and the empty dict are falsy
MetricsFalsy(m) == m.kind = "none" \/ DOMAIN m.d = {}

(***************************************************************************)
(* Strings: lower() and substring containment.                             *)
(***************************************************************************)
UpperAlpha == <<"A","B","C","D","E","F","G","H","I","J","K","L","M",
                "N","O","P","Q","R","S","T","U","V","W","X","Y","Z">>
LowerAlpha == <<"a","b","c","d","e","f","g","h","i","j","k","l","m",
                "n","o","p","q","r","s","t","u","v","w","x","y","z">>

LowerChar(c) ==
    IF \E i \in 1..Len(UpperAlpha) : UpperAlpha[i] = c
    THEN LowerAlpha[CHOOSE i \in 1..Len(UpperAlpha) : UpperAlpha[i] = c]
    ELSE c

\* str.lower(); KeepCase is the name used as it was typed
KeepCase(s) == s

Lower(s) == [i \in 1..Len(s) |-> LowerChar(s[i])]

\* `k in e` for two strings
Contains(e, k) ==
    \E i \in 1..(Len(e) - Len(k) + 1) : SubSeq(e, i, i + Len(k) - 1) = k

\* any(k in e for k in ks)
AnyIn(e, ks) == \E j \in 1..Len(ks) : Contains(e, ks[j])

(***************************************************************************)
(* interpret_conditions: the label.                                        *)
(***************************************************************************)
HotThreshold == 34
WetThreshold == 10
CoolThreshold == 18

\* tmax = metrics.get("t_max") or metrics.get("tmax")
TmaxOf(d) == PyOr(Get(d, "t_max"), Get(d, "tmax"))

\* rain = metrics.get("precip_24h") or metrics.get("precip") or 0
RainOf(d) == PyOr(PyOr(Get(d, "precip_24h"), Get(d, "precip")), Num(0))

IsHot(d) == Truthy(TmaxOf(d)) /\ Val(TmaxOf(d)) >= HotThreshold
IsWet(d) == Val(RainOf(d)) >= WetThreshold
IsCool(d) == Truthy(TmaxOf(d)) /\ Val(TmaxOf(d)) <= CoolThreshold

HotTips == <<"stay hydrated", "use sunscreen", "set up shaded rest areas">>
WetTips == <<"bring umbrellas or ponchos", "cover electrical gear", "consider indoor backup">>
CoolTips == <<"bring light jacket", "warm drinks", "prepare windbreakers">>
FairTips == <<"good outdoor weather", "still check UV levels", "keep hydration nearby">>

\* the if/elif/else chain on the weather; SwappedWeatherRule is the same
\* chain with the wet test placed before the hot test
SwappedWeatherRule(m) ==
    IF MetricsFalsy(m) THEN [label |-> "mixed conditions", tips |-> <<>>]
    ELSE IF IsWet(m.d) THEN [label |-> "very wet", tips |-> WetTips]
    ELSE IF IsHot(m.d) THEN [label |-> "very hot", tips |-> HotTips]
    ELSE IF IsCool(m.d) THEN [label |-> "cool", tips |-> CoolTips]
    ELSE [label |-> "fair", tips |-> FairTips]

\* mixed conditions also gets a tip set of its own
TippedMixedRule(m) ==
    IF MetricsFalsy(m) THEN [label |-> "mixed conditions", tips |-> FairTips]
    ELSE IF IsHot(m.d) THEN [label |-> "very hot", tips |-> HotTips]
    ELSE IF IsWet(m.d) THEN [label |-> "very wet", tips |-> WetTips]
    ELSE IF IsCool(m.d) THEN [label |-> "cool", tips |-> CoolTips]
    ELSE [label |-> "fair", tips |-> FairTips]

WeatherRule(m) ==
    IF MetricsFalsy(m) THEN [label |-> "mixed conditions", tips |-> <<>>]
    ELSE IF IsHot(m.d) THEN [label |-> "very hot", tips |-> HotTips]
    ELSE IF IsWet(m.d) THEN [label |-> "very wet", tips |-> WetTips]
    ELSE IF IsCool(m.d) THEN [label |-> "cool", tips |-> CoolTips]
    ELSE [label |-> "fair", tips |-> FairTips]

(***************************************************************************)
(* interpret_conditions: the event categories, in the order of the         *)
(* if/elif chain.                                                           *)
(***************************************************************************)
CategoryKeywords == <<
    <<<<"d","r","o","n","e">>,
      <<"f","l","y","i","n","g">>,
      <<"a","e","r","i","a","l">>,
      <<"u","a","v">>,
      <<"f","p","v">>>>,
    <<<<"w","e","d","d","i","n","g">>,
      <<"c","e","r","e","m","o","n","y">>,
      <<"p","a","r","t","y">>,
      <<"f","e","s","t","i","v","a","l">>>>,
    <<<<"c","o","n","c","e","r","t">>,
      <<"s","h","o","w">>,
      <<"p","e","r","f","o","r","m","a","n","c","e">>>>,
    <<<<"s","p","o","r","t","s">>,
      <<"m","a","t","c","h">>,
      <<"r","u","n">>,
      <<"r","a","c","e">>,
      <<"t","o","u","r","n","a","m","e","n","t">>>>,
    <<<<"p","i","c","n","i","c">>,
      <<"b","b","q">>,
      <<"b","e","a","c","h">>,
      <<"p","a","r","k">>>>,
    <<<<"h","i","k","e">>,
      <<"t","r","a","i","l">>,
      <<"c","a","m","p">>,
      <<"f","o","r","e","s","t">>>>,
    <<<<"m","a","r","k","e","t">>,
      <<"b","a","z","a","a","r">>,
      <<"s","t","a","l","l">>,
      <<"f","o","o","d">>>>,
    <<<<"s","h","o","o","t">>,
      <<"f","i","l","m","i","n","g">>,
      <<"p","h","o","t","o">>,
      <<"v","i","d","e","o">>>>,
    <<<<"s","c","h","o","o","l">>,
      <<"o","u","t","r","e","a","c","h">>,
      <<"b","o","o","t","h">>,
      <<"o","p","e","n"," ","h","o","u","s","e">>>>,
    <<<<"m","e","e","t","i","n","g">>,
      <<"c","o","n","f","e","r","e","n","c","e">>,
      <<"e","x","p","o">>>>,
    <<<<"t","r","a","v","e","l">>,
      <<"t","r","i","p">>,
      <<"j","o","u","r","n","e","y">>>> >>

\* (the en dash of "avoid peak sun 12-3 pm" is written as a hyphen)
CategoryTips == <<
    <<"check wind speed", "verify NOTAM zones", "bring ND filters", "spare batteries">>,
    <<"confirm canopy vendor", "protect sound systems", "backup indoor option">>,
    <<"check lighting", "cover audio equipment", "manage crowd cooling">>,
    <<"hydration points ready", "shade near seating", "heat index monitoring">>,
    <<"bring cooler", "sunscreen", "avoid peak sun 12-3 pm">>,
    <<"carry insect repellent", "check rainfall for trail conditions">>,
    <<"keep perishables chilled", "secure tents", "prepare tarps">>,
    <<"check sunlight angles", "use ND filters", "keep batteries charged">>,
    <<"laminate posters", "check wind stability of displays">>,
    <<"check AV setup", "backup presentation USB">>,
    <<"expect delays in bad weather", "carry compact umbrella">> >>

Categories == 1..Len(CategoryKeywords)

\* the condition of branch c of the chain, on the lower-cased name e
Matches(e, c) == AnyIn(e, CategoryKeywords[c])

\* the branch of the if/elif chain that is taken, scanning from branch c:
\* the first whose condition holds, 0 when none does
RECURSIVE FirstFrom(_, _)
FirstFrom(e, c) ==
    IF c > Len(CategoryKeywords) THEN 0
    ELSE IF Matches(e, c) THEN c
    ELSE FirstFrom(e, c + 1)

\* SkipFirstBranch starts the scan at the second branch
SkipFirstBranch(e) == FirstFrom(e, 2)

FirstCategory(e) == FirstFrom(e, 1)

\* the tips the chain adds for the lower-cased name e
EventTips(e) ==
    LET c == FirstCategory(e)
    IN  IF c = 0 THEN <<>> ELSE CategoryTips[c]

(***************************************************************************)
(* interpret_conditions: general tips, padding, de-duplication.            *)
(***************************************************************************)
general == <<"monitor live weather 3h before start",
             "keep first-aid supplies ready",
             "assign weather safety in-charge">>

padding == <<"monitor conditions hourly", "pack essentials", "communicate updates">>

InSeq(x, s) == \E i \in 1..Len(s) : s[i] = x

\* for g in general: if g not in tips: tips.append(g)
RECURSIVE AppendMissing(_, _)
AppendMissing(tips, gs) ==
    IF gs = <<>> THEN tips
    ELSE AppendMissing(IF InSeq(Head(gs), tips) THEN tips ELSE Append(tips, Head(gs)),
                       Tail(gs))

\* if len(tips) < 3: tips += [...]
Pad(tips) == IF Len(tips) < 3 THEN tips \o padding ELSE tips

\* [t for t in tips if not (t in seen or seen.add(t))]
RECURSIVE DedupeFrom(_, _)
DedupeFrom(tips, acc) ==
    IF tips = <<>> THEN acc
    ELSE DedupeFrom(Tail(tips),
                    IF InSeq(Head(tips), acc) THEN acc ELSE Append(acc, Head(tips)))

Dedupe(tips) == DedupeFrom(tips, <<>>)

\* the list built before the general tips are added; GeneralFirstAssembly
\* puts the general tips in front instead of behind
GeneralFirstAssembly(m, name) ==
    Dedupe(Pad(general \o WeatherRule(m).tips \o EventTips(Lower(name))))

Assemble(m, name) ==
    Dedupe(Pad(AppendMissing(WeatherRule(m).tips \o EventTips(Lower(name)), general)))

\* interpret_conditions(metrics, event_name) -> (label, final_tips); a name of
\* None is the empty name: e = (event_name or "").lower()
interpret_conditions(m, name) ==
    [label |-> WeatherRule(m).label, tips |-> Assemble(m, name)]

(***************************************************************************)
(* Inputs.                                                                  *)
(***************************************************************************)
Space == <<" ">>

Vocabulary == {
    <<"D","r","o","n","e">>,
    <<"S","h","o","w">>,
    <<"B","e","a","c","h">>,
    <<"B","B","Q">>,
    <<"F","e","s","t","i","v","a","l">>,
    <<"R","u","n","n","i","n","g">>,
    <<"Q","u","i","z">> }

\* the names of exactly n words
RECURSIVE NamesOf(_)
NamesOf(n) ==
    IF n = 0 THEN {<<>>}
    ELSE IF n = 1 THEN Vocabulary
    ELSE {p \o Space \o w : p \in NamesOf(n - 1), w \in Vocabulary}

Names == UNION {NamesOf(n) : n \in 0..MaxWords}

TempValues == {None, Num(-5), Num(0), Num(18), Num(19), Num(25), Num(33), Num(34), Num(35)}
RainValues == {None, Num(0), Num(2), Num(10), Num(20)}
WindValues == {Num(3), Num(12)}

\* the record get_meteomatics_summary returns
MeteomaticsShaped ==
    [t_max : {None, Num(0), Num(34)}, t_min : {None, Num(10)},
     precip_24h : {None, Num(0), Num(20)}]

\* a metrics record as the /suggest contract of the specification passes it
WindShaped ==
    [t_max : TempValues, precip_24h : RainValues, wind_max : WindValues]

\* the record get_nasa_power returns
NasaShaped ==
    [tmax : {None, Num(0), Num(18), Num(40)}, tmin : {Num(10)},
     precip : {None, Num(0), Num(12)}, solar : {Num(5)}]

\* a record carrying the fields of both sources
MergedShaped ==
    [t_max : {None, Num(0), Num(35)}, tmax : {None, Num(40)},
     precip_24h : {None, Num(0), Num(20)}, precip : {None, Num(12)}]

EmptyDict == [k \in {} |-> None]

Dicts == MeteomaticsShaped \cup WindShaped \cup NasaShaped \cup MergedShaped

MetricsNone == [kind |-> "none", d |-> EmptyDict]

MetricsInputs ==
    {MetricsNone, [kind |-> "dict", d |-> EmptyDict]}
        \cup {[kind |-> "dict", d |-> d] : d \in Dicts}

(***************************************************************************)
(* The tables and the signed tokens.                                       *)
(***************************************************************************)
\* a table without rows
NoRows == [i \in {} |-> 0]

\* hashlib.sha256(text).hexdigest(): an ideal hash, two texts never collide
Sha256(text) == [sha256 |-> text]

APP_SECRET == "dev-secret-change-me"

\* _hash_pin(username, pin) = sha256(f"{username}:{pin}:{APP_SECRET}")
HashPin(username, pin) == Sha256(<<username, pin, APP_SECRET>>)

NoData == [uid |-> 0, username |-> <<>>, exp |-> 0]

\* a token string without a "." in it
NoToken == [wellformed |-> FALSE, data |-> NoData, sig |-> Sha256(<<NoData, "">>)]

NoRequest ==
    [op |-> "none", at |-> 0, scheme |-> "", token |-> NoToken, target |-> 0,
     valid |-> FALSE, status |-> 0, uid |-> 0, rows |-> <<>>]

EventIdle ==
    /\ now = 0
    /\ ticks = 0
    /\ issued = {}
    /\ events = NoRows
    /\ e_last = NoRequest

\* no signup or login under way
IdleRequest ==
    [pc |-> "idle", op |-> "none", username |-> <<>>, pin |-> <<>>, status |-> 0, uid |-> 0]

SignupIdle == u_w = <<>> /\ u_seq = 0

UserIdle == users = NoRows /\ SignupIdle

\* no connection, and advisory lock 420420 free
NoConn == <<0, 0>>

NoLock == [holder |-> NoConn, count |-> 0]

\* no process started
PoolIdle ==
    /\ db_pool = <<>>
    /\ pools = <<>>
    /\ lock = NoLock
    /\ p_w = <<>>

(***************************************************************************)
(* The advice engine as a state machine: one call of interpret_conditions. *)
(***************************************************************************)
FetchIdle ==
    /\ f_pc = "idle"
    /\ f_which = "meteomatics"
    /\ f_creds = TRUE
    /\ f_args = [date |-> "ok", lat |-> "ok", lon |-> "ok"]
    /\ f_net = [transport |-> "ok", status |-> 200, body |-> "data"]
    /\ f_payload = {}
    /\ f_requests = 0
    /\ f_result = "pending"
    /\ f_record = EmptyDict

Init ==
    /\ pc = "call"
    /\ metrics \in MetricsInputs
    /\ event_name \in Names
    /\ label = ""
    /\ final_tips = <<>>
    /\ FetchIdle
    /\ EventIdle
    /\ UserIdle
    /\ PoolIdle

Advise ==
    /\ pc = "call"
    /\ pc' = "done"
    /\ LET r == interpret_conditions(metrics, event_name)
       IN  /\ label' = r.label
           /\ final_tips' = r.tips
    /\ UNCHANGED <<metrics, event_name>>
    /\ UNCHANGED <<fetch_vars, event_vars, users, signup_vars, pool_vars>>

Next == Advise

Spec == Init /\ [][Next]_vars

(***************************************************************************)
(* The weather fetchers get_meteomatics_summary and get_nasa_power: one    *)
(* call, statement by statement.  An exception raised by a statement goes  *)
(* to the except clause when the statement is inside the try block, and    *)
(* to the caller otherwise.                                                 *)
(***************************************************************************)
ArgStates == {"ok", "absent", "malformed"}

\* what the upstream does: the transport, the status code, the body
NetStates ==
    [transport : {"ok", "exception", "timeout"},
     status : {200, 404},
     body : {"data", "bad_json", "bad_shape"}]

MeteomaticsParams == {"t_max_2m_24h:C", "t_min_2m_24h:C", "precip_24h:mm"}
NasaParams == {"T2M_MAX", "T2M_MIN", "PRECTOTCORR", "ALLSKY_SFC_SW_DWN"}

ParamsOf(which) == IF which = "meteomatics" THEN MeteomaticsParams ELSE NasaParams

\* the value the upstream reports for a parameter
UpstreamValue(p) ==
    IF p \in {"t_max_2m_24h:C", "T2M_MAX"} THEN Num(30)
    ELSE IF p \in {"t_min_2m_24h:C", "T2M_MIN"} THEN Num(20)
    ELSE IF p \in {"precip_24h:mm", "PRECTOTCORR"} THEN Num(4)
    ELSE Num(5)

\* data.get(p) / data.get(p, default) on the parsed body
DataGet(present, p, default) == IF p \in present THEN UpstreamValue(p) ELSE default

\* the dict get_meteomatics_summary returns
MeteomaticsRecord(present) ==
    [t_max |-> DataGet(present, "t_max_2m_24h:C", None),
     t_min |-> DataGet(present, "t_min_2m_24h:C", None),
     precip_24h |-> DataGet(present, "precip_24h:mm", Num(0))]

\* the dict get_nasa_power returns
NasaRecord(present) ==
    [tmax |-> UpstreamValue("T2M_MAX"), tmin |-> UpstreamValue("T2M_MIN"),
     precip |-> UpstreamValue("PRECTOTCORR"), solar |-> UpstreamValue("ALLSKY_SFC_SW_DWN")]

\* the statements the try block covers: in both functions every statement
\* after the credentials test; FormatOutsideTry builds the URL before the try
FormatOutsideTry(which, stmt) == stmt \in {"parse_date", "request", "status", "parse"}

InTry(which, stmt) == stmt \in {"parse_date", "format_url", "request", "status", "parse"}

\* a statement raised: control goes to the except clause or to the caller
Raise(stmt) ==
    IF InTry(f_which, stmt)
    THEN /\ f_pc' = "except"
         /\ UNCHANGED <<f_result, f_record>>
    ELSE /\ f_pc' = "done"
         /\ f_result' = "raised"
         /\ UNCHANGED f_record

Return(result, record) ==
    /\ f_pc' = "done"
    /\ f_result' = result
    /\ f_record' = record

AdviceIdle ==
    /\ pc = "idle"
    /\ metrics = MetricsNone
    /\ event_name = <<>>
    /\ label = ""
    /\ final_tips = <<>>

FetchInit ==
    /\ AdviceIdle
    /\ EventIdle
    /\ UserIdle
    /\ PoolIdle
    /\ f_pc = "start"
    /\ f_which \in {"meteomatics", "nasa"}
    /\ f_creds \in BOOLEAN
    /\ f_args \in [date : ArgStates, lat : ArgStates, lon : ArgStates]
    /\ f_net \in NetStates
    /\ f_payload \in SUBSET ParamsOf(f_which)
    /\ f_requests = 0
    /\ f_result = "pending"
    /\ f_record = EmptyDict

\* if not (MM_USER and MM_PASS): return None       (get_meteomatics_summary only)
F_Start ==
    /\ f_pc = "start"
    /\ IF f_which = "meteomatics" /\ ~f_creds
       THEN Return("none", EmptyDict)
       ELSE f_pc' = "parse_date" /\ UNCHANGED <<f_result, f_record>>
    /\ UNCHANGED <<f_which, f_creds, f_args, f_net, f_payload, f_requests>>
    /\ UNCHANGED <<advice_vars, event_vars, users, signup_vars, pool_vars>>

\* d = dt.datetime.fromisoformat(date_iso): TypeError on None, ValueError on a bad string
F_ParseDate ==
    /\ f_pc = "parse_date"
    /\ IF f_args.date = "ok"
       THEN f_pc' = "format_url" /\ UNCHANGED <<f_result, f_record>>
       ELSE Raise("parse_date")
    /\ UNCHANGED <<f_which, f_creds, f_args, f_net, f_payload, f_requests>>
    /\ UNCHANGED <<advice_vars, event_vars, users, signup_vars, pool_vars>>

\* url = f"...{lat:.4f},{lon:.4f}...": TypeError on None, ValueError on a str
F_FormatUrl ==
    /\ f_pc = "format_url"
    /\ IF f_args.lat = "ok" /\ f_args.lon = "ok"
       THEN f_pc' = "request" /\ UNCHANGED <<f_result, f_record>>
       ELSE Raise("format_url")
    /\ UNCHANGED <<f_which, f_creds, f_args, f_net, f_payload, f_requests>>
    /\ UNCHANGED <<advice_vars, event_vars, users, signup_vars, pool_vars>>

\* r = requests.get(url, ..., timeout=...)
F_Request ==
    /\ f_pc = "request"
    /\ f_requests' = f_requests + 1
    /\ IF f_net.transport = "ok"
       THEN f_pc' = "status" /\ UNCHANGED <<f_result, f_record>>
       ELSE Raise("request")
    /\ UNCHANGED <<f_which, f_creds, f_args, f_net, f_payload>>
    /\ UNCHANGED <<advice_vars, event_vars, users, signup_vars, pool_vars>>

\* if r.status_code != 200: return None
F_Status ==
    /\ f_pc = "status"
    /\ IF f_net.status # 200
       THEN Return("none", EmptyDict)
       ELSE f_pc' = "parse" /\ UNCHANGED <<f_result, f_record>>
    /\ UNCHANGED <<f_which, f_creds, f_args, f_net, f_payload, f_requests>>
    /\ UNCHANGED <<advice_vars, event_vars, users, signup_vars, pool_vars>>

\* r.json() and the extraction of the values: r.json() raises on a body that is
\* not JSON; the subscripts raise on a body of another shape; get_nasa_power
\* raises IndexError on list(...)[0] when a parameter is missing
F_Parse ==
    /\ f_pc = "parse"
    /\ IF f_net.body # "data"
       THEN Raise("parse")
       ELSE IF f_which = "meteomatics"
       THEN Return("record", MeteomaticsRecord(f_payload))
       ELSE IF f_payload = NasaParams
       THEN Return("record", NasaRecord(f_payload))
       ELSE Raise("parse")
    /\ UNCHANGED <<f_which, f_creds, f_args, f_net, f_payload, f_requests>>
    /\ UNCHANGED <<advice_vars, event_vars, users, signup_vars, pool_vars>>

\* except Exception as e: log; return None
F_Except ==
    /\ f_pc = "except"
    /\ Return("none", EmptyDict)
    /\ UNCHANGED <<f_which, f_creds, f_args, f_net, f_payload, f_requests>>
    /\ UNCHANGED <<advice_vars, event_vars, users, signup_vars, pool_vars>>

FetchNext ==
    \/ F_Start
    \/ F_ParseDate
    \/ F_FormatUrl
    \/ F_Request
    \/ F_Status
    \/ F_Parse
    \/ F_Except

FetchSpec == FetchInit /\ [][FetchNext]_vars

(***************************************************************************)
(* Tokens: _sign, _verify, issue_token, require_auth.                      *)
(* A token string f"{data}.{sig}" is the record of its two parts; data is  *)
(* the payload itself, json.loads(json.dumps(payload)) being the payload   *)
(* for a dict of an int, a str and a float.                                 *)
(***************************************************************************)
TokenTTL == 604800

\* _sign(payload)
Sign(payload) ==
    [wellformed |-> TRUE, data |-> payload, sig |-> Sha256(<<payload, APP_SECRET>>)]

\* issue_token(uid, username) called at time t
IssueToken(uid, username, t) ==
    Sign([uid |-> uid, username |-> username, exp |-> t + TokenTTL])

\* _verify without the test of the expiry
VerifyNoExpiry(token, t) ==
    IF ~token.wellformed THEN None
    ELSE IF Sha256(<<token.data, APP_SECRET>>) # token.sig THEN None
    ELSE {token.data}

\* _verify(token) called at time t: the payload, or None.  rsplit(".", 1) of
\* a string without "." gives one part and the unpacking raises ValueError,
\* which the except clause turns into None
Verify(token, t) ==
    IF ~token.wellformed THEN None
    ELSE IF Sha256(<<token.data, APP_SECRET>>) # token.sig THEN None
    ELSE IF t > token.data.exp THEN None
    ELSE {token.data}

\* require_auth: the payload passed to the handler as `user`, or None for 401
RequireAuth(scheme, token, t) ==
    IF scheme # "Bearer " THEN None ELSE Verify(token, t)

(***************************************************************************)
(* The protected routes list_events, create_event, update_event.  Each     *)
(* handler runs one statement in one transaction, so a request is one      *)
(* step.  Of a row of events the columns user_id, event_name and date are  *)
(* kept; city, country, lat and lon are stored as given and decide nothing.*)
(***************************************************************************)
Al == <<"a","l">>
Bo == <<"b","o">>

\* the rows of app_users after two signups
RegisteredUsers ==
    [i \in {1, 2} |->
        IF i = 1 THEN [username |-> Al, pin_hash |-> HashPin(Al, <<"1","2","3","4">>)]
        ELSE [username |-> Bo, pin_hash |-> HashPin(Bo, <<"4","3","2","1">>)]]

\* str.strip() for the blank " "
RECURSIVE LStrip(_)
LStrip(str) == IF str # <<>> /\ Head(str) = " " THEN LStrip(Tail(str)) ELSE str

RECURSIVE RStrip(_)
RStrip(str) ==
    IF str # <<>> /\ str[Len(str)] = " " THEN RStrip(SubSeq(str, 1, Len(str) - 1)) ELSE str

Strip(str) == RStrip(LStrip(str))

\* what a client can put into the Authorization header without knowing
\* APP_SECRET: a token it was handed, such a token with the payload altered,
\* a payload signed with another key, a string that is no token
Tokens == {i.token : i \in issued}

Altered(tok) ==
    {[tok EXCEPT !.data.uid = 3 - @], [tok EXCEPT !.data.exp = @ + TokenTTL]}

SelfSigned ==
    LET d == [uid |-> 1, username |-> Al, exp |-> now + TokenTTL]
    IN  [wellformed |-> TRUE, data |-> d, sig |-> Sha256(<<d, "guessed-secret">>)]

Headers ==
    {[scheme |-> "Bearer ", token |-> t] :
        t \in Tokens \cup UNION {Altered(tok) : tok \in Tokens} \cup {SelfSigned, NoToken}}
      \cup {[scheme |-> "bearer ", token |-> t] : t \in Tokens}
      \cup {[scheme |-> "", token |-> NoToken]}

\* request bodies: event_name a string, date a day or absent (a date is read
\* as the number of its day; "" and a missing key are both absent)
Gala == <<" ","G","a","l","a">>

Bodies ==
    {[event_name |-> <<" ">>, date |-> Num(1)], [event_name |-> Gala, date |-> None],
     [event_name |-> Gala, date |-> Num(1)], [event_name |-> Gala, date |-> Num(2)]}

\* what the database does to a request: nothing wrong, init_db_pool() raises,
\* the statement raises; the handler catches neither, the response is 500
Failures == {"none", "pool", "statement"}

\* if not name or not date: 400
BodyValid(name, date) == Strip(name) # <<>> /\ date # None

\* WHERE id=%s AND user_id=%s; UpdateAnyOwner leaves the owner out
UpdateAnyOwner(id, uid) == id \in DOMAIN events

UpdateMatches(id, uid) == id \in DOMAIN events /\ events[id].user_id = uid

\* SELECT ... WHERE user_id=%s
OwnIds(uid) == {id \in DOMAIN events : events[id].user_id = uid}

\* ... ORDER BY date ASC: the rows in an order of ascending date; ListUnordered
\* leaves the ORDER BY out
ListUnordered(uid) ==
    {q \in [1..Cardinality(OwnIds(uid)) -> OwnIds(uid)] :
        \A i, j \in DOMAIN q : i # j => q[i] # q[j]}

ListRows(uid) ==
    {q \in [1..Cardinality(OwnIds(uid)) -> OwnIds(uid)] :
        /\ \A i, j \in DOMAIN q : i # j => q[i] # q[j]
        /\ \A i, j \in DOMAIN q : i < j => events[q[i]].date <= events[q[j]].date}

\* what is kept of a request and its response: at is the time of the request
Response(op, h, target, valid, status, uid, rows) ==
    [op |-> op, at |-> now, scheme |-> h.scheme, token |-> h.token, target |-> target,
     valid |-> valid, status |-> status, uid |-> uid, rows |-> rows]

\* the requests require_auth lets through to the handler
Authorized == {h \in Headers : RequireAuth(h.scheme, h.token, now) # None}

\* require_auth answers 401: the handler is not called, nothing of the request
\* but its header is read
Unauthorized(op) ==
    \E h \in Headers :
        /\ RequireAuth(h.scheme, h.token, now) = None
        /\ e_last' = Response(op, h, 0, FALSE, 401, 0, <<>>)

\* the server after the first signup, no token handed out yet
AuthInit ==
    /\ AdviceIdle
    /\ FetchIdle
    /\ SignupIdle
    /\ PoolIdle
    /\ now = 0
    /\ ticks = 0
    /\ issued = {}
    /\ users = [i \in {1} |-> RegisteredUsers[i]]
    /\ events = NoRows
    /\ e_last = NoRequest

\* the server after both users logged in at time 0
EventInit ==
    /\ AdviceIdle
    /\ FetchIdle
    /\ SignupIdle
    /\ PoolIdle
    /\ now = 0
    /\ ticks = 0
    /\ issued = {[token |-> IssueToken(uid, RegisteredUsers[uid].username, 0), at |-> 0] :
                    uid \in DOMAIN RegisteredUsers}
    /\ users = RegisteredUsers
    /\ events = NoRows
    /\ e_last = NoRequest

\* time.time() moves on: the clock is read at 0, at TokenTTL and at the
\* seconds after it; e_last is the last request since the clock moved
Tick ==
    /\ ticks < MaxTicks
    /\ now' = IF now < TokenTTL THEN TokenTTL ELSE now + 1
    /\ ticks' = ticks + 1
    /\ e_last' = NoRequest
    /\ UNCHANGED <<issued, users, events>>
    /\ UNCHANGED <<advice_vars, fetch_vars, signup_vars, pool_vars>>

\* a signup or login of a registered user succeeds: issue_token(uid, u)
Issue ==
    /\ Cardinality(issued) < MaxTokens
    /\ \E uid \in DOMAIN users :
          issued' = issued \cup
              {[token |-> IssueToken(uid, users[uid].username, now), at |-> now]}
    /\ UNCHANGED <<now, ticks, users, events, e_last>>
    /\ UNCHANGED <<advice_vars, fetch_vars, signup_vars, pool_vars>>

\* GET /events
ListEvents ==
    /\ \/ Unauthorized("list")
       \/ \E h \in Authorized, fails \in Failures :
          LET user == RequireAuth(h.scheme, h.token, now)
          IN  IF fails # "none"
              THEN e_last' = Response("list", h, 0, TRUE, 500, Val(user).uid, <<>>)
              ELSE \E rows \in ListRows(Val(user).uid) :
                      e_last' = Response("list", h, 0, TRUE, 200, Val(user).uid, rows)
    /\ UNCHANGED <<now, ticks, issued, users, events>>
    /\ UNCHANGED <<advice_vars, fetch_vars, signup_vars, pool_vars>>

\* POST /events; the new id is the next value of the identity column
CreateEvent ==
    /\ \/ Unauthorized("create") /\ UNCHANGED events
       \/ \E h \in Authorized, d \in Bodies, fails \in Failures :
          LET user == RequireAuth(h.scheme, h.token, now)
              name == d.event_name
              date == d.date
              valid == BodyValid(name, date)
              id == Cardinality(DOMAIN events) + 1
          IN  IF fails = "pool"
              THEN /\ e_last' = Response("create", h, 0, valid, 500, Val(user).uid, <<>>)
                   /\ UNCHANGED events
              ELSE IF ~valid
              THEN /\ e_last' = Response("create", h, 0, valid, 400, Val(user).uid, <<>>)
                   /\ UNCHANGED events
              ELSE IF fails = "statement"
              THEN /\ e_last' = Response("create", h, 0, valid, 500, Val(user).uid, <<>>)
                   /\ UNCHANGED events
              ELSE /\ id <= MaxEvents
                   /\ events' = [i \in DOMAIN events \cup {id} |->
                                    IF i = id
                                    THEN [user_id |-> Val(user).uid,
                                          event_name |-> Strip(name), date |-> Val(date)]
                                    ELSE events[i]]
                   /\ e_last' = Response("create", h, id, valid, 201, Val(user).uid, <<id>>)
    /\ UNCHANGED <<now, ticks, issued, users>>
    /\ UNCHANGED <<advice_vars, fetch_vars, signup_vars, pool_vars>>

\* PUT /events/<event_id>
UpdateEvent ==
    /\ \/ Unauthorized("update") /\ UNCHANGED events
       \/ \E h \in Authorized, id \in 1..MaxEvents, d \in Bodies, fails \in Failures :
          LET user == RequireAuth(h.scheme, h.token, now)
              name == d.event_name
              date == d.date
              valid == BodyValid(name, date)
          IN  IF fails = "pool"
              THEN /\ e_last' = Response("update", h, id, valid, 500, Val(user).uid, <<>>)
                   /\ UNCHANGED events
              ELSE IF ~valid
              THEN /\ e_last' = Response("update", h, id, valid, 400, Val(user).uid, <<>>)
                   /\ UNCHANGED events
              ELSE IF fails = "statement"
              THEN /\ e_last' = Response("update", h, id, valid, 500, Val(user).uid, <<>>)
                   /\ UNCHANGED events
              ELSE IF ~UpdateMatches(id, Val(user).uid)
              THEN /\ e_last' = Response("update", h, id, valid, 404, Val(user).uid, <<>>)
                   /\ UNCHANGED events
              ELSE /\ events' = [events EXCEPT ![id].event_name = Strip(name),
                                               ![id].date = Val(date)]
                   /\ e_last' = Response("update", h, id, valid, 200, Val(user).uid, <<id>>)
    /\ UNCHANGED <<now, ticks, issued, users>>
    /\ UNCHANGED <<advice_vars, fetch_vars, signup_vars, pool_vars>>

AuthNext ==
    \/ Tick
    \/ Issue
    \/ ListEvents
    \/ CreateEvent
    \/ UpdateEvent

AuthSpec == AuthInit /\ [][AuthNext]_vars

EventNext ==
    \/ ListEvents
    \/ CreateEvent
    \/ UpdateEvent

EventSpec == EventInit /\ [][EventNext]_vars

(***************************************************************************)
(* signup and login, served by several workers at once.  A step is one     *)
(* statement sent to the database, together with the local computation     *)
(* before it; the database runs at READ COMMITTED: a statement sees the     *)
(* committed rows, and an INSERT ... ON CONFLICT waits while another        *)
(* transaction holds an uncommitted row with the same username.  The        *)
(* database answers every statement; the connection pool is left to         *)
(* PoolSpec.                                                                *)
(***************************************************************************)
Workers == 1..NumWorkers

Digits == {"0", "1", "2", "3", "4", "5", "6", "7", "8", "9"}

\* str.isdigit(), for ASCII strings: every character a digit, at least one
IsDigit(str) == str # <<>> /\ \A i \in DOMAIN str : str[i] \in Digits

\* if not u or not p.isdigit() or len(p)!=4: 400
CredentialsValid(u, p) == u # <<>> /\ IsDigit(p) /\ Len(p) = 4

\* what clients send as username and pin (JSON strings; null and a missing
\* key are read as "")
UsernameInputs == {<<" ">>, <<" ","A","l">>, <<"a","l">>, <<"b","o">>}
PinInputs == {<<"1","2","3","4"," ">>, <<"4","3","2","1">>, <<"1","2","a","4">>, <<"1","2","3">>}

\* the committed row with username u, as a set of ids
RowOf(u) == {id \in DOMAIN users : users[id].username = u}

\* ON CONFLICT(username): a committed row with this username exists;
\* NeverConflicts is a table without the UNIQUE constraint
NeverConflicts(u) == FALSE

Conflicts(u) == RowOf(u) # {}

\* another transaction has inserted username u and not committed yet
InsertPending(w, u) ==
    \E v \in Workers \ {w} : u_w[v].pc = "commit" /\ u_w[v].username = u

UserInit ==
    /\ AdviceIdle
    /\ FetchIdle
    /\ EventIdle
    /\ PoolIdle
    /\ users = NoRows
    /\ u_w = [w \in Workers |-> IdleRequest]
    /\ u_seq = 0

\* POST /signup up to its INSERT, which returns the new id or no row
SignupInsert(w) ==
    /\ u_w[w].pc = "idle"
    /\ \E username \in UsernameInputs, pin \in PinInputs :
          LET u == Lower(Strip(username))
              p == Strip(pin)
              r == [IdleRequest EXCEPT !.op = "signup", !.username = u, !.pin = p]
          IN  IF ~CredentialsValid(u, p)
              THEN /\ u_w' = [u_w EXCEPT ![w] = [r EXCEPT !.pc = "done", !.status = 400]]
                   /\ UNCHANGED u_seq
              ELSE /\ ~InsertPending(w, u)
                   /\ IF Conflicts(u)
                      THEN /\ u_w' = [u_w EXCEPT ![w] = [r EXCEPT !.pc = "select"]]
                           /\ UNCHANGED u_seq
                      ELSE /\ u_seq' = u_seq + 1
                           /\ u_w' = [u_w EXCEPT ![w] =
                                        [r EXCEPT !.pc = "commit", !.uid = u_seq + 1]]
    /\ UNCHANGED users
    /\ UNCHANGED <<advice_vars, fetch_vars, event_vars, pool_vars>>

\* signup after a conflict: SELECT id,pin_hash and the comparison
SignupSelect(w) ==
    /\ u_w[w].pc = "select"
    /\ LET r == u_w[w]
           row2 == RowOf(r.username)
       IN  IF row2 = {} \/ \E id \in row2 : users[id].pin_hash # HashPin(r.username, r.pin)
           THEN u_w' = [u_w EXCEPT ![w] = [r EXCEPT !.pc = "done", !.status = 409]]
           ELSE \E id \in row2 :
                   u_w' = [u_w EXCEPT ![w] = [r EXCEPT !.pc = "done", !.status = 200, !.uid = id]]
    /\ UNCHANGED <<users, u_seq>>
    /\ UNCHANGED <<advice_vars, fetch_vars, event_vars, pool_vars>>

\* signup after its row went in: the with block commits, the token goes out
SignupCommit(w) ==
    /\ u_w[w].pc = "commit"
    /\ LET r == u_w[w]
       IN  /\ users' = [id \in DOMAIN users \cup {r.uid} |->
                          IF id = r.uid
                          THEN [username |-> r.username,
                                pin_hash |-> HashPin(r.username, r.pin)]
                          ELSE users[id]]
           /\ u_w' = [u_w EXCEPT ![w] = [r EXCEPT !.pc = "done", !.status = 200]]
    /\ UNCHANGED u_seq
    /\ UNCHANGED <<advice_vars, fetch_vars, event_vars, pool_vars>>

\* POST /login: its one SELECT and the comparison
Login(w) ==
    /\ u_w[w].pc = "idle"
    /\ \E username \in UsernameInputs, pin \in PinInputs :
          LET u == Lower(Strip(username))
              p == Strip(pin)
              r == [IdleRequest EXCEPT !.op = "login", !.username = u, !.pin = p, !.pc = "done"]
              row == RowOf(u)
          IN  IF ~CredentialsValid(u, p)
              THEN u_w' = [u_w EXCEPT ![w] = [r EXCEPT !.status = 400]]
              ELSE IF row = {} \/ \E id \in row : users[id].pin_hash # HashPin(u, p)
              THEN u_w' = [u_w EXCEPT ![w] = [r EXCEPT !.status = 401]]
              ELSE \E id \in row :
                      u_w' = [u_w EXCEPT ![w] = [r EXCEPT !.status = 200, !.uid = id]]
    /\ UNCHANGED <<users, u_seq>>
    /\ UNCHANGED <<advice_vars, fetch_vars, event_vars, pool_vars>>

\* the response is out, the worker takes the next request
Respond(w) ==
    /\ u_w[w].pc = "done"
    /\ u_w' = [u_w EXCEPT ![w] = IdleRequest]
    /\ UNCHANGED <<users, u_seq>>
    /\ UNCHANGED <<advice_vars, fetch_vars, event_vars, pool_vars>>

UserNext ==
    \/ \E w \in Workers : SignupInsert(w)
    \/ \E w \in Workers : SignupSelect(w)
    \/ \E w \in Workers : SignupCommit(w)
    \/ \E w \in Workers : Login(w)
    \/ \E w \in Workers : Respond(w)

UserSpec == UserInit /\ [][UserNext]_vars

(***************************************************************************)
(* init_db_pool, ensure_schema and the getconn/putconn of a handler, run   *)
(* by several workers at once; the workers are threads of one process and  *)
(* share db_pool, or are processes with a db_pool each.  A step is one      *)
(* call into psycopg2.  SimpleConnectionPool(minconn=1, maxconn=8) opens    *)
(* one connection when constructed; getconn hands out the idle connection   *)
(* or opens one; putconn keeps the connection if the pool has no idle one   *)
(* and closes it otherwise, and raises PoolError for a connection the pool  *)
(* did not hand out.  Any call that talks to the database can fail.         *)
(***************************************************************************)
\* psycopg2.pool.SimpleConnectionPool(minconn=1, maxconn=8, **DB_CFG) of process proc,
\* the q-th pool constructed
NewPool(proc, q) ==
    [proc |-> proc, made |-> 1, idle |-> {<<q, 1>>}, used |-> {}, probed |-> FALSE]

\* db_pool.getconn(): the connection handed out
Handed(q) ==
    IF pools[q].idle # {} THEN CHOOSE c \in pools[q].idle : TRUE
    ELSE <<q, pools[q].made + 1>>

\* db_pool.getconn(): the pool afterwards
AfterGetconn(q) ==
    IF pools[q].idle # {}
    THEN [pools EXCEPT ![q].idle = @ \ {Handed(q)}, ![q].used = @ \cup {Handed(q)}]
    ELSE [pools EXCEPT ![q].made = @ + 1, ![q].used = @ \cup {Handed(q)}]

\* db_pool.putconn(conn) raises PoolError
Unkeyed(q, c) == c \notin pools[q].used

\* db_pool.putconn(conn) closes conn
Closes(q, c) == pools[q].idle # {}

\* db_pool.putconn(conn): the pool afterwards
AfterPutconn(q, c) ==
    IF Closes(q, c) THEN [pools EXCEPT ![q].used = @ \ {c}]
    ELSE [pools EXCEPT ![q].used = @ \ {c}, ![q].idle = @ \cup {c}]

\* a session that ends gives up its advisory locks
AfterClose(c) == IF lock.holder = c THEN NoLock ELSE lock

\* a worker before its request
FreshWorker(proc) ==
    [pc |-> "start", proc |-> proc, conn |-> NoConn, attempts |-> 0, looped |-> FALSE,
     probed |-> FALSE, failing |-> FALSE, result |-> ""]

PoolInit ==
    /\ AdviceIdle
    /\ FetchIdle
    /\ EventIdle
    /\ UserIdle
    /\ db_pool = [proc \in Workers |-> 0]
    /\ pools = <<>>
    /\ lock = NoLock
    /\ \E threads \in BOOLEAN :
          p_w = [w \in Workers |-> FreshWorker(IF threads THEN 1 ELSE w)]

At(w, where) == p_w[w].pc = where

Goto(w, where) == [p_w[w] EXCEPT !.pc = where]

\* except Exception as e: last_err = e; time.sleep(2); back to the loop test
Retry(w) == [p_w[w] EXCEPT !.pc = "loop", !.attempts = @ + 1]

\* init_db_pool: if db_pool: return
InitDbPool_Check(w) ==
    /\ At(w, "start")
    /\ p_w' = [p_w EXCEPT ![w] =
                 IF db_pool[p_w[w].proc] # 0
                 THEN [p_w[w] EXCEPT !.pc = "handler", !.result = "returned"]
                 ELSE [p_w[w] EXCEPT !.pc = "loop", !.looped = TRUE]]
    /\ UNCHANGED <<db_pool, pools, lock>>
    /\ UNCHANGED <<advice_vars, fetch_vars, event_vars, users, signup_vars>>

\* while time.time() < deadline
InitDbPool_Loop(w) ==
    /\ At(w, "loop")
    /\ p_w' = [p_w EXCEPT ![w] =
                 Goto(w, IF p_w[w].attempts < MaxAttempts THEN "create" ELSE "after")]
    /\ UNCHANGED <<db_pool, pools, lock>>
    /\ UNCHANGED <<advice_vars, fetch_vars, event_vars, users, signup_vars>>

\* db_pool = SimpleConnectionPool(...)
InitDbPool_Create(w) ==
    /\ At(w, "create")
    /\ \/ /\ pools' = Append(pools, NewPool(p_w[w].proc, Len(pools) + 1))
          /\ db_pool' = [db_pool EXCEPT ![p_w[w].proc] = Len(pools) + 1]
          /\ p_w' = [p_w EXCEPT ![w] = Goto(w, "getconn")]
       \/ /\ p_w' = [p_w EXCEPT ![w] = Retry(w)]
          /\ UNCHANGED <<db_pool, pools>>
    /\ UNCHANGED lock
    /\ UNCHANGED <<advice_vars, fetch_vars, event_vars, users, signup_vars>>

\* conn = db_pool.getconn()
InitDbPool_Getconn(w) ==
    /\ At(w, "getconn")
    /\ LET q == db_pool[p_w[w].proc]
       IN  \/ /\ pools' = AfterGetconn(q)
              /\ p_w' = [p_w EXCEPT ![w] = [p_w[w] EXCEPT !.pc = "probe", !.conn = Handed(q)]]
           \/ /\ pools[q].idle = {}
              /\ p_w' = [p_w EXCEPT ![w] = Retry(w)]
              /\ UNCHANGED pools
    /\ UNCHANGED <<db_pool, lock>>
    /\ UNCHANGED <<advice_vars, fetch_vars, event_vars, users, signup_vars>>

\* with conn, conn.cursor() as cur: cur.execute("SELECT 1;")
InitDbPool_Probe(w) ==
    /\ At(w, "probe")
    /\ \/ /\ p_w' = [p_w EXCEPT ![w] = [p_w[w] EXCEPT !.pc = "putconn", !.probed = TRUE]]
          /\ pools' = [pools EXCEPT ![p_w[w].conn[1]].probed = TRUE]
       \/ /\ p_w' = [p_w EXCEPT ![w] = Retry(w)]
          /\ UNCHANGED pools
    /\ UNCHANGED <<db_pool, lock>>
    /\ UNCHANGED <<advice_vars, fetch_vars, event_vars, users, signup_vars>>

\* db_pool.putconn(conn); break
InitDbPool_Putconn(w) ==
    /\ At(w, "putconn")
    /\ LET q == db_pool[p_w[w].proc]
           c == p_w[w].conn
       IN  IF Unkeyed(q, c)
           THEN /\ p_w' = [p_w EXCEPT ![w] = Retry(w)]
                /\ UNCHANGED <<pools, lock>>
           ELSE /\ pools' = AfterPutconn(q, c)
                /\ lock' = IF Closes(q, c) THEN AfterClose(c) ELSE lock
                /\ p_w' = [p_w EXCEPT ![w] = [p_w[w] EXCEPT !.pc = "after", !.conn = NoConn]]
    /\ UNCHANGED db_pool
    /\ UNCHANGED <<advice_vars, fetch_vars, event_vars, users, signup_vars>>

\* if not db_pool: raise RuntimeError(...); ensure_schema()
InitDbPool_After(w) ==
    /\ At(w, "after")
    /\ p_w' = [p_w EXCEPT ![w] =
                 IF db_pool[p_w[w].proc] = 0
                 THEN [p_w[w] EXCEPT !.pc = "done", !.result = "RuntimeError"]
                 ELSE Goto(w, "schema")]
    /\ UNCHANGED <<db_pool, pools, lock>>
    /\ UNCHANGED <<advice_vars, fetch_vars, event_vars, users, signup_vars>>

\* ensure_schema: conn = db_pool.getconn()
EnsureSchema_Getconn(w) ==
    /\ At(w, "schema")
    /\ LET q == db_pool[p_w[w].proc]
       IN  \/ /\ pools' = AfterGetconn(q)
              /\ p_w' = [p_w EXCEPT ![w] = [p_w[w] EXCEPT !.pc = "lock", !.conn = Handed(q)]]
           \/ /\ pools[q].idle = {}
              /\ p_w' = [p_w EXCEPT ![w] = [p_w[w] EXCEPT !.pc = "done", !.result = "raised"]]
              /\ UNCHANGED pools
    /\ UNCHANGED <<db_pool, lock>>
    /\ UNCHANGED <<advice_vars, fetch_vars, event_vars, users, signup_vars>>

\* SELECT pg_advisory_lock(420420): waits while another session holds the
\* lock; a session can take it again
EnsureSchema_Lock(w) ==
    /\ At(w, "lock")
    /\ lock.holder \in {NoConn, p_w[w].conn}
    /\ lock' = [holder |-> p_w[w].conn, count |-> lock.count + 1]
    /\ p_w' = [p_w EXCEPT ![w] = Goto(w, "statements")]
    /\ UNCHANGED <<db_pool, pools>>
    /\ UNCHANGED <<advice_vars, fetch_vars, event_vars, users, signup_vars>>

\* the CREATE TABLE, ALTER TABLE and CREATE INDEX statements: all pass, or one
\* raises and the with block rolls back, which keeps a session's advisory lock
EnsureSchema_Statements(w) ==
    /\ At(w, "statements")
    /\ \/ p_w' = [p_w EXCEPT ![w] = Goto(w, "unlock")]
       \/ p_w' = [p_w EXCEPT ![w] = [p_w[w] EXCEPT !.pc = "finally", !.failing = TRUE]]
    /\ UNCHANGED <<db_pool, pools, lock>>
    /\ UNCHANGED <<advice_vars, fetch_vars, event_vars, users, signup_vars>>

\* SELECT pg_advisory_unlock(420420)
EnsureSchema_Unlock(w) ==
    /\ At(w, "unlock")
    /\ lock' = IF lock.count > 1 THEN [lock EXCEPT !.count = @ - 1] ELSE NoLock
    /\ p_w' = [p_w EXCEPT ![w] = Goto(w, "finally")]
    /\ UNCHANGED <<db_pool, pools>>
    /\ UNCHANGED <<advice_vars, fetch_vars, event_vars, users, signup_vars>>

\* finally: db_pool.putconn(conn)
EnsureSchema_Putconn(w) ==
    /\ At(w, "finally")
    /\ LET q == db_pool[p_w[w].proc]
           c == p_w[w].conn
       IN  IF Unkeyed(q, c)
           THEN /\ p_w' = [p_w EXCEPT ![w] = [p_w[w] EXCEPT !.pc = "done", !.result = "raised"]]
                /\ UNCHANGED <<pools, lock>>
           ELSE /\ pools' = AfterPutconn(q, c)
                /\ lock' = IF Closes(q, c) THEN AfterClose(c) ELSE lock
                /\ p_w' = [p_w EXCEPT ![w] =
                             IF p_w[w].failing
                             THEN [p_w[w] EXCEPT !.pc = "done", !.conn = NoConn,
                                                 !.result = "raised"]
                             ELSE [p_w[w] EXCEPT !.pc = "handler", !.conn = NoConn,
                                                 !.result = "returned"]]
    /\ UNCHANGED db_pool
    /\ UNCHANGED <<advice_vars, fetch_vars, event_vars, users, signup_vars>>

\* a handler after init_db_pool() returned: conn=db_pool.getconn()
Handler_Getconn(w) ==
    /\ At(w, "handler")
    /\ LET q == db_pool[p_w[w].proc]
       IN  \/ /\ pools' = AfterGetconn(q)
              /\ p_w' = [p_w EXCEPT ![w] = [p_w[w] EXCEPT !.pc = "body", !.conn = Handed(q)]]
           \/ /\ pools[q].idle = {}
              /\ p_w' = [p_w EXCEPT ![w] = Goto(w, "done")]
              /\ UNCHANGED pools
    /\ UNCHANGED <<db_pool, lock>>
    /\ UNCHANGED <<advice_vars, fetch_vars, event_vars, users, signup_vars>>

\* the with block of a handler, left by its end, by a return or by an
\* exception, and then finally: db_pool.putconn(conn)
Handler_Putconn(w) ==
    /\ At(w, "body")
    /\ LET q == db_pool[p_w[w].proc]
           c == p_w[w].conn
       IN  IF Unkeyed(q, c)
           THEN /\ p_w' = [p_w EXCEPT ![w] = Goto(w, "done")]
                /\ UNCHANGED <<pools, lock>>
           ELSE /\ pools' = AfterPutconn(q, c)
                /\ lock' = IF Closes(q, c) THEN AfterClose(c) ELSE lock
                /\ p_w' = [p_w EXCEPT ![w] = [p_w[w] EXCEPT !.pc = "done", !.conn = NoConn]]
    /\ UNCHANGED db_pool
    /\ UNCHANGED <<advice_vars, fetch_vars, event_vars, users, signup_vars>>

PoolNext ==
    \/ \E w \in Workers : InitDbPool_Check(w)
    \/ \E w \in Workers : InitDbPool_Loop(w)
    \/ \E w \in Workers : InitDbPool_Create(w)
    \/ \E w \in Workers : InitDbPool_Getconn(w)
    \/ \E w \in Workers : InitDbPool_Probe(w)
    \/ \E w \in Workers : InitDbPool_Putconn(w)
    \/ \E w \in Workers : InitDbPool_After(w)
    \/ \E w \in Workers : EnsureSchema_Getconn(w)
    \/ \E w \in Workers : EnsureSchema_Lock(w)
    \/ \E w \in Workers : EnsureSchema_Statements(w)
    \/ \E w \in Workers : EnsureSchema_Unlock(w)
    \/ \E w \in Workers : EnsureSchema_Putconn(w)
    \/ \E w \in Workers : Handler_Getconn(w)
    \/ \E w \in Workers : Handler_Putconn(w)

PoolSpec == PoolInit /\ [][PoolNext]_vars

(***************************************************************************)
(* Properties of the advice engine, checked under Spec.                    *)
(***************************************************************************)
Called == pc = "done"

DroneShow == <<"D","r","o","n","e">> \o Space \o <<"S","h","o","w">>
BeachBBQ == <<"B","e","a","c","h">> \o Space \o <<"B","B","Q">>

\* a field that is present and at least / at most n
AtLeast(v, n) == v # None /\ Val(v) >= n
AtMost(v, n) == v # None /\ Val(v) <= n

\* the decision list as the specification words it, on the fields t_max,
\* precip_24h and wind_max of the metrics record
DecisionListLabel(d) ==
    IF AtLeast(Get(d, "t_max"), 33) THEN "very hot"
    ELSE IF AtLeast(Get(d, "precip_24h"), 10) THEN "very wet"
    ELSE IF AtLeast(Get(d, "wind_max"), 10) THEN "very windy"
    ELSE IF AtMost(Get(d, "t_max"), 18) THEN "cool"
    ELSE "fair"

\* C1: for every present metrics record and every event name the label is
\* the one the ordered decision list gives: t_max >= 33 "very hot", else
\* precip_24h >= 10 "very wet", else wind_max >= 10 "very windy", else
\* t_max <= 18 "cool", else "fair".
C1_DecisionList ==
    (Called /\ metrics.kind = "dict") => label = DecisionListLabel(metrics.d)

\* C2: whenever t_max = 35 and precip_24h = 20, whatever the other fields
\* and the event name, the label is "very hot".
C2_HotBeatsWet ==
    (/\ Called
     /\ metrics.kind = "dict"
     /\ Get(metrics.d, "t_max") = Num(35)
     /\ Get(metrics.d, "precip_24h") = Num(20)) => label = "very hot"

C2_Witness ==
    /\ Called
    /\ metrics.kind = "dict"
    /\ Get(metrics.d, "t_max") = Num(35)
    /\ Get(metrics.d, "precip_24h") = Num(20)
    /\ Get(metrics.d, "wind_max") = Num(12)
    /\ event_name = DroneShow
    /\ label = "very hot"

LabelTipSet ==
    {HotTips[i] : i \in 1..Len(HotTips)} \cup {WetTips[i] : i \in 1..Len(WetTips)}
        \cup {CoolTips[i] : i \in 1..Len(CoolTips)}
        \cup {FairTips[i] : i \in 1..Len(FairTips)}

\* C3: when metrics is None, for every event name the label is "mixed
\* conditions", no tip of a label-specific tip set is returned, and at
\* least 3 tips are returned.
C3_AbsentMetrics ==
    (Called /\ metrics.kind = "none") =>
        /\ label = "mixed conditions"
        /\ \A i \in 1..Len(final_tips) : final_tips[i] \notin LabelTipSet
        /\ Len(final_tips) >= 3

C3_Witness ==
    /\ Called
    /\ metrics.kind = "none"
    /\ event_name = BeachBBQ
    /\ label = "mixed conditions"
    /\ Len(final_tips) = 6

FirstIndex(s, x) == CHOOSE i \in 1..Len(s) : s[i] = x /\ \A j \in 1..(i - 1) : s[j] # x

\* C4: the returned tip list holds no string twice, and its tips stand in
\* the order of their first occurrence in: label tips, then event tips, then
\* general tips.
C4_NoDuplicatesInOrder ==
    Called =>
        LET raw == WeatherRule(metrics).tips \o EventTips(Lower(event_name)) \o general
        IN  /\ \A i, j \in 1..Len(final_tips) : i # j => final_tips[i] # final_tips[j]
            /\ \A i \in 1..Len(final_tips) : InSeq(final_tips[i], raw)
            /\ \A i \in 1..Len(raw) : InSeq(raw[i], final_tips)
            /\ \A i, j \in 1..Len(final_tips) :
                  i < j => FirstIndex(raw, final_tips[i]) < FirstIndex(raw, final_tips[j])

C4_Witness ==
    /\ Called
    /\ label = "very wet"
    /\ event_name = DroneShow
    /\ Len(final_tips) = 10
    /\ final_tips[1] = "bring umbrellas or ponchos"
    /\ final_tips[4] = "check wind speed"
    /\ final_tips[8] = "monitor live weather 3h before start"

\* C5: every category with a trigger substring in the lower-cased name adds
\* its tips, also when the name matches several categories at once.
C5_IndependentCategories ==
    Called =>
        \A c \in Categories :
            Matches(Lower(event_name), c) =>
                \A i \in 1..Len(CategoryTips[c]) : InSeq(CategoryTips[c][i], final_tips)

\* C6: "Drone Show" with {t_max: 25, precip_24h: 2, wind_max: 12} gets the
\* label "very windy" and a wind-check tip.
C6_DroneShowWindy ==
    (/\ Called
     /\ event_name = DroneShow
     /\ metrics.kind = "dict"
     /\ metrics.d = [t_max |-> Num(25), precip_24h |-> Num(2), wind_max |-> Num(12)])
        => (label = "very windy" /\ InSeq("check wind speed", final_tips))

HydrationOrShadeTips == {"stay hydrated", "set up shaded rest areas"}
KeepFoodChilledTips == {"bring cooler", "keep perishables chilled"}
Bbq == <<"b","b","q">>

\* C7: "Beach BBQ" with {t_max: 34, precip_24h: 0, wind_max: 3} gets the
\* label "very hot", a hydration or shade tip, and a keep-food-chilled tip
\* that belongs to the category the keyword "bbq" triggers.
C7_BeachBBQ ==
    (/\ Called
     /\ event_name = BeachBBQ
     /\ metrics.kind = "dict"
     /\ metrics.d = [t_max |-> Num(34), precip_24h |-> Num(0), wind_max |-> Num(3)])
        => /\ label = "very hot"
           /\ \E t \in HydrationOrShadeTips : InSeq(t, final_tips)
           /\ \E t \in KeepFoodChilledTips :
                 /\ InSeq(t, final_tips)
                 /\ \E c \in Categories :
                       /\ InSeq(Bbq, CategoryKeywords[c])
                       /\ InSeq(t, CategoryTips[c])

C7_Witness ==
    /\ Called
    /\ event_name = BeachBBQ
    /\ metrics.kind = "dict"
    /\ metrics.d = [t_max |-> Num(34), precip_24h |-> Num(0), wind_max |-> Num(3)]
    /\ label = "very hot"
    /\ InSeq("bring cooler", final_tips)

\* a record that carries no data: every field None, precipitation None or 0
CarriesNoData(d) ==
    /\ DOMAIN d # {}
    /\ \A k \in DOMAIN d :
          d[k] = None \/ (k \in {"precip_24h", "precip"} /\ d[k] = Num(0))

\* C8: a metrics record that carries no data is answered like absent
\* metrics: label "mixed conditions" and no label-specific tips.
C8_EmptyRecordIsGeneric ==
    (Called /\ metrics.kind = "dict" /\ CarriesNoData(metrics.d)) =>
        /\ label = "mixed conditions"
        /\ \A i \in 1..Len(final_tips) : final_tips[i] \notin LabelTipSet

\* the part of the returned tips that follows the label tips
EventPart == SubSeq(final_tips, Len(WeatherRule(metrics).tips) + 1, Len(final_tips))

\* some keyword of category c occurs in the lower-cased name e
KeywordOf(e, c) ==
    \E j \in 1..Len(CategoryKeywords[c]) : Contains(e, CategoryKeywords[c][j])

\* C10: the tips derived from the event name are never empty: a name in
\* which no keyword occurs, the empty name included, gets exactly the fixed
\* fallback list; every other name gets the tips of at least one category
\* whose keyword occurs in it.
C10_NeverEmpty ==
    Called =>
        LET e == Lower(event_name)
            part == EventPart
            hit == {c \in Categories : KeywordOf(e, c)}
        IN  /\ part # <<>>
            /\ hit = {} => part = general
            /\ hit # {} =>
                  \E c \in hit :
                      /\ Len(part) >= Len(CategoryTips[c])
                      /\ \A i \in 1..Len(CategoryTips[c]) : part[i] = CategoryTips[c][i]

C10_Witness ==
    /\ Called
    /\ event_name = <<>>
    /\ metrics.kind = "none"
    /\ final_tips = general

\* C13: a present t_max of 0 is a number like any other: with no climatology
\* tmax to fall back on and precip_24h below 10 the label is "cool"; with a
\* climatology tmax in the same record the commercial 0 is still the value
\* that is compared, so the label is "cool" as well.
C13_ZeroIsPresent ==
    (/\ Called
     /\ metrics.kind = "dict"
     /\ Get(metrics.d, "t_max") = Num(0)
     /\ ~AtLeast(Get(metrics.d, "precip_24h"), 10)
     /\ ~AtLeast(Get(metrics.d, "precip"), 10)) => label = "cool"

(***************************************************************************)
(* Properties of the fetchers, checked under FetchSpec.                    *)
(***************************************************************************)
ArgAbsent == "absent" \in {f_args.date, f_args.lat, f_args.lon}
CredsMissing == f_which = "meteomatics" /\ ~f_creds

\* C9: every call of a fetcher ends with a record or None and never raises,
\* whatever fails; with credentials missing (get_meteomatics_summary) or
\* date, lat or lon absent, no request is issued.
C9_FetchersNeverRaise ==
    /\ f_result # "raised"
    /\ f_pc = "done" => f_result \in {"none", "record"}
    /\ f_pc # "done" => ENABLED FetchNext
    /\ (CredsMissing \/ ArgAbsent) => f_requests = 0
    /\ (f_pc = "done" /\ (CredsMissing \/ ArgAbsent)) => f_result = "none"

C9_Witness ==
    /\ f_pc = "done"
    /\ f_which = "nasa"
    /\ f_args = [date |-> "ok", lat |-> "absent", lon |-> "ok"]
    /\ f_requests = 0
    /\ f_result = "none"

(***************************************************************************)
(* Properties of the tokens, checked under AuthSpec.                       *)
(***************************************************************************)
SignedByServer(tok) == tok.wellformed /\ tok.sig = Sha256(<<tok.data, APP_SECRET>>)

SevenDays == 7 * 24 * 60 * 60

\* the last request reached its handler iff it came with "Bearer " and a
\* token signed under APP_SECRET whose expiry had not passed
ReachedIffAuthentic ==
    e_last.op # "none" =>
        (e_last.status # 401 <=>
            /\ e_last.scheme = "Bearer "
            /\ SignedByServer(e_last.token)
            /\ e_last.at <= e_last.token.data.exp)

\* a token handed out carries the user's id and name and expires seven days
\* after its issue; it is accepted now iff now is not after that
IssuedTokensGood ==
    \A i \in issued :
        /\ i.token.data.uid \in DOMAIN users
        /\ i.token.data.username = users[i.token.data.uid].username
        /\ i.token.data.exp = i.at + SevenDays
        /\ (RequireAuth("Bearer ", i.token, now) # None <=> now <= i.at + SevenDays)
        /\ (RequireAuth("Bearer ", i.token, now) # None =>
                RequireAuth("Bearer ", i.token, now) = {i.token.data})

\* C11: a request to a protected route reaches its handler if and only if its
\* Authorization header is "Bearer " followed by a token whose signature
\* matches its data under APP_SECRET and whose expiry has not passed; a token
\* issued by signup or login carries user id, username and an expiry 7 days
\* after issue, is accepted at every time up to that expiry and at no time
\* after it; every other request gets 401 and leaves users and events
\* unchanged.
C11_TokenContract ==
    /\ [](ReachedIffAuthentic /\ IssuedTokensGood)
    /\ [][e_last'.status = 401 => UNCHANGED <<users, events>>]_vars

\* an issued token was accepted and created an event, and is rejected after
\* its expiry
C11_Witness ==
    /\ e_last.status = 401
    /\ e_last.scheme = "Bearer "
    /\ e_last.token \in Tokens
    /\ e_last.at = e_last.token.data.exp + 1
    /\ \E id \in DOMAIN events : events[id].user_id = e_last.token.data.uid

(***************************************************************************)
(* Properties of the events, checked under EventSpec.                      *)
(***************************************************************************)
\* the last request was update_event, by a user who does not own the event
NonOwnerUpdate ==
    /\ e_last.op = "update"
    /\ e_last.status # 401
    /\ e_last.target \in DOMAIN events
    /\ events[e_last.target].user_id # e_last.uid

\* the rows of the last list_events are the caller's events, each once, in
\* ascending order of date
ListedOwnByDate ==
    (e_last.op = "list" /\ e_last.status = 200) =>
        /\ {e_last.rows[i] : i \in DOMAIN e_last.rows} = OwnIds(e_last.uid)
        /\ Len(e_last.rows) = Cardinality(OwnIds(e_last.uid))
        /\ \A i, j \in DOMAIN e_last.rows :
              i < j => events[e_last.rows[i]].date <= events[e_last.rows[j]].date

\* a step keeps every event and its owner, and a new event belongs to the
\* user whose token created it
OwnerKept ==
    /\ \A id \in DOMAIN events :
          id \in DOMAIN events' /\ events'[id].user_id = events[id].user_id
    /\ \A id \in DOMAIN events' \ DOMAIN events :
          /\ e_last'.op = "create"
          /\ e_last'.status = 201
          /\ e_last'.token \in Tokens
          /\ events'[id].user_id = e_last'.token.data.uid

\* an update_event that is not by the owner of an existing event changes no
\* event
NonOwnerChangesNothing ==
    (/\ e_last'.op = "update"
     /\ ~(/\ e_last'.target \in DOMAIN events
          /\ events[e_last'.target].user_id = e_last'.uid)) => events' = events

\* C12 as stated: update_event by a user who is not the owner returns 404.
C12_NonOwnerGets404 == NonOwnerUpdate => e_last.status = 404

\* C12: after any sequence of create_event, update_event and list_events
\* requests by any users, every stored event has exactly one owner, which is
\* the user whose token created it and never changes; update_event by a user
\* who is not the owner leaves the event unchanged and returns 404 when the
\* body has a non-empty event_name and a date, 400 when one of them is
\* missing, or 500 when the database raises; list_events returns exactly the
\* caller's own events, ordered by date ascending.
C12_Ownership ==
    /\ [](/\ \A id \in DOMAIN events : events[id].user_id \in DOMAIN users
          /\ NonOwnerUpdate =>
                e_last.status \in (IF e_last.valid THEN {404, 500} ELSE {400, 500})
          /\ ListedOwnByDate)
    /\ [][OwnerKept /\ NonOwnerChangesNothing]_vars

\* Bo asked to update an event of Al with a complete body and got 404, and
\* Al's list holds two events
C12_Witness ==
    /\ NonOwnerUpdate
    /\ e_last.status = 404
    /\ Cardinality(OwnIds(events[e_last.target].user_id)) = 2

(***************************************************************************)
(* Properties of signup and login, checked under UserSpec.                 *)
(***************************************************************************)
Answered(w) == u_w[w].pc = "done"

\* the username is non-empty and the pin is exactly four digits
FourDigitPin(w) ==
    /\ u_w[w].username # <<>>
    /\ Len(u_w[w].pin) = 4
    /\ \A i \in DOMAIN u_w[w].pin : u_w[w].pin[i] \in Digits

\* the row of worker w's username holds the hash of worker w's pin
PinMatches(w, id) ==
    /\ id \in DOMAIN users
    /\ users[id].username = u_w[w].username
    /\ users[id].pin_hash = HashPin(u_w[w].username, u_w[w].pin)

OneRowPerUsername ==
    /\ \A i, j \in DOMAIN users : users[i].username = users[j].username => i = j
    /\ \A i \in DOMAIN users : Lower(Strip(users[i].username)) = users[i].username

AnswersRight ==
    \A w \in Workers :
        Answered(w) =>
            /\ u_w[w].status = 400 <=> ~FourDigitPin(w)
            /\ u_w[w].status \in
                  (IF u_w[w].op = "signup" THEN {200, 400, 409} ELSE {200, 400, 401})
            /\ u_w[w].status = 200 => PinMatches(w, u_w[w].uid)
            /\ u_w[w].status = 409 =>
                  \E id \in DOMAIN users :
                      /\ users[id].username = u_w[w].username
                      /\ users[id].pin_hash # HashPin(u_w[w].username, u_w[w].pin)

\* a step keeps every row as it is, and only the commit of a signup with
\* valid credentials adds one
TableKept ==
    /\ \A id \in DOMAIN users : id \in DOMAIN users' /\ users'[id] = users[id]
    /\ users' # users =>
          \E w \in Workers :
              /\ u_w[w].op = "signup"
              /\ FourDigitPin(w)
              /\ u_w'[w].status = 200
    /\ \A w \in Workers :
          (u_w[w].pc = "idle" /\ (u_w'[w].op = "login" \/ u_w'[w].status = 400))
              => users' = users

PastLoop(w) == p_w[w].looped /\ p_w[w].pc \notin {"loop", "create", "getconn", "probe", "putconn"}

\* C15: when no attempt's probe succeeds before the deadline, init_db_pool
\* raises RuntimeError and does not run ensure_schema, also when the pool
\* object could be constructed and the probe query failed.
C15_NoProbeNoSchema ==
    \A w \in Workers :
        (PastLoop(w) /\ ~p_w[w].probed) =>
            p_w[w].pc \in {"after", "done"} /\ p_w[w].result \in {"", "RuntimeError"}

\* C16: no connection is back in a pool while its session holds advisory
\* lock 420420.
C16_LockReleased ==
    \A q \in DOMAIN pools : lock.holder \notin pools[q].idle

\* C17: once every request is completed no connection is checked out, and
\* every pool constructed is the db_pool of its process.
C17_Conserved ==
    (\A w \in Workers : p_w[w].pc = "done") =>
        /\ \A q \in DOMAIN pools : pools[q].used = {}
        /\ \A q \in DOMAIN pools : db_pool[pools[q].proc] = q

====
